---- MODULE Spec2Model ----
(***************************************************************************)
(* Model of src/src/gtsam_tags_node.cpp: main() and LocalizerRunner, whose *)
(* Update() is one tick of the update scheduler.  A tick is a chain of     *)
(* steps forced by pc: configuration (lines 78-95), odometry (97-103),     *)
(* then per camera the pull (109-126) and the backlog scan (129-135), and  *)
(* the decision (138-155).  The collaborators (ConfigListener,             *)
(* OdomListener, CameraListener, Localizer, DataPublisher) are the         *)
(* environment: what they return is chosen with \E, and every call made    *)
(* to the estimator and the publisher by a step is recorded in emitted.   *)
(***************************************************************************)
EXTENDS Integers, Sequences, FiniteSets

\* ---------------------------------------------------------------- bounds
\* Timestamps (timeUs, uint64_t in the code) range over 0..MaxTime.
MaxTime == 3
\* Longest sequence one odomListener.Update() returns.
MaxOdomLen == 3
\* Vision observations created over a whole run (their ids are 1..MaxObs).
MaxObs == 2
\* Largest config.cameras.size().
MaxCams == 2
\* Largest argc main() is started with (argc ranges over 0..MaxArgc).
MaxArgc == 3

Times == 0..MaxTime
ObsIds == 1..MaxObs

\* The largest element of a non-empty finite set of numbers.
SetMax(S) == CHOOSE m \in S : \A x \in S : x <= m

\* All sequences over S of length 0..n.
SeqsUpTo(S, n) == UNION {[1..k -> S] : k \in 0..n}

VARIABLES
  pc,                        \* position in main() / Update()
  argc,                      \* main: argc (line 159), until the check of lines 161-168 has read it
  configPath,                \* main: configPath (line 160), until ParseConfig has read it
  exitStatus,                \* main: the value returned at line 167, or 0 while running
  numCams,                   \* cameraListeners.size() (lines 68-71)
  gotInitialGuess,           \* line 62
  lastOdomTimestamp,         \* line 74
  tooNewCameraObservations,  \* line 60: sequence of [id, timeUs]
  readyToOptimize,           \* Update: local, line 78
  prior,                     \* Update: local, line 80 (has_value()); not read after line 81
  layout,                    \* Update: local, line 86 (has_value()); scoped to lines 86-93
  camIdx,                    \* Update: position of the loop of line 108
  scanPos,                   \* Update: position of the iterator of line 129
  ready,                     \* Update: local of the camera loop, line 109
  odomLeft,                  \* Update: elements of odomUpdate the loop of line 99 has not reached
  odomRaised,                \* history: the current tick's pull has raised lastOdomTimestamp
  odomUnforwarded,           \* history: samples of the current pull not yet passed to AddOdometry
  emitted,                   \* the calls the last step made to the collaborators, in order
  created,                   \* history: created[id] is the timeUs of observation id
  delivered,                 \* history: delivered[id] counts AddTagObservation calls for id
  backlogged,                \* history: ids ever pushed to tooNewCameraObservations
  direct,                    \* history: ids delivered at line 124
  odomMax,                   \* history: the largest of 0 and all odometry timestamps pulled
  resetSinceLayout,          \* history: Reset called since the last SetLayout
  camNotReady                \* history: a camera reported not ready in the current tick

vars == <<pc, argc, ready, odomUnforwarded, configPath, exitStatus, numCams, gotInitialGuess, lastOdomTimestamp,
          tooNewCameraObservations, readyToOptimize, prior, layout, camIdx, scanPos,
          odomLeft, odomRaised, emitted, created, delivered, backlogged, direct, odomMax, resetSinceLayout,
          camNotReady>>

mainVars == <<argc, configPath, exitStatus, numCams>>
odomVars == <<odomLeft, odomRaised, odomUnforwarded>>
histVars == <<created, delivered, backlogged, direct, odomMax, resetSinceLayout,
              camNotReady>>
obsVars == <<created, delivered, backlogged, direct>>

\* One call to a collaborator: op names it, cam is the iteration of the loop of
\* line 108 it is made in (0 outside that loop), id and timeUs are the observation or
\* sample passed (timeUs as the callee reads it), wm is lastOdomTimestamp at the call.
Call(op, cam, id, t, wm) == [op |-> op, cam |-> cam, id |-> id, timeUs |-> t, wm |-> wm]

\* ------------------------------------------------------------ pure helpers
\* Mutant of AdvanceWatermark: the watermark follows the last sample.
AdvanceWatermarkLast(wm, t) == t

\* line 100: lastOdomTimestamp < it.timeUs ? it.timeUs : lastOdomTimestamp
AdvanceWatermark(wm, t) == IF wm < t THEN t ELSE wm

\* Mutant of ApplyPrior: every prior is applied.
ApplyPriorAlways(p, guess) == p

\* line 81: prior && !gotInitialGuess
ApplyPrior(p, guess) == p /\ ~guess

\* Mutant of AfterLayout: a new layout leaves gotInitialGuess as it is.
AfterLayoutKept(l, guess) == guess

\* lines 86-93: gotInitialGuess after the layout check
AfterLayout(l, guess) == IF l THEN FALSE ELSE guess

\* Mutant of AndAssign: the operand is not folded into readyToOptimize.
AndAssignDropped(r, b) == r

\* lines 95 and 111: readyToOptimize &= b
AndAssign(r, b) == r /\ b

\* Mutant of TooNew: an observation at the watermark is buffered too.
TooNewOrEqual(t, wm) == t >= wm

\* Mutant of OdomCalls: a sample older than the watermark is not forwarded.
OdomCallsFreshOnly(t, wm) ==
  IF t < wm THEN <<>> ELSE <<Call("AddOdometry", 0, 0, t, wm)>>

\* line 102: localizer->AddOdometry(it), with the watermark line 100 has set
OdomCalls(t, wm) == <<Call("AddOdometry", 0, 0, t, wm)>>

\* line 119: it.timeUs > lastOdomTimestamp
TooNew(t, wm) == t > wm

\* line 130: it.timeUs <= lastOdomTimestamp
Eligible(t, wm) == t <= wm

\* line 132: pop_front()
PopFront(q) == Tail(q)

\* Mutant of ParseArgs: any other argument count is taken as a path.
ParseArgsLenient(n) == IF n = 1 THEN "default" ELSE "argv1"

\* lines 161-168: the branch main() takes when argc is n
ParseArgs(n) ==
  IF n = 1 THEN "default" ELSE IF n = 2 THEN "argv1" ELSE "usage"

\* ------------------------------------------------------------------ Init
Init ==
  /\ pc = "main"
  /\ argc \in 0..MaxArgc
  /\ ready = FALSE
  /\ odomUnforwarded = 0
  /\ configPath = ""
  /\ exitStatus = 0
  /\ numCams = 0
  /\ gotInitialGuess = FALSE
  /\ lastOdomTimestamp = 0
  /\ tooNewCameraObservations = <<>>
  /\ readyToOptimize = TRUE
  /\ prior = FALSE
  /\ layout = FALSE
  /\ camIdx = 0
  /\ scanPos = 0
  /\ odomLeft = 0
  /\ odomRaised = FALSE
  /\ emitted = <<>>
  /\ created = <<>>
  /\ delivered = [i \in ObsIds |-> 0]
  /\ backlogged = {}
  /\ direct = {}
  /\ odomMax = 0
  /\ resetSinceLayout = FALSE
  /\ camNotReady = FALSE

\* --------------------------------------------------------------- actions
\* main(), lines 159-168: the argument check.
Main ==
  /\ pc = "main"
  /\ UNCHANGED ready
  /\ IF ParseArgs(argc) = "usage"
     THEN /\ pc' = "exit"
          /\ exitStatus' = -1
          /\ UNCHANGED configPath
     ELSE /\ pc' = "load"
          /\ configPath' = ParseArgs(argc)
          /\ UNCHANGED exitStatus
  /\ UNCHANGED <<argc, numCams, gotInitialGuess, lastOdomTimestamp, tooNewCameraObservations,
                 readyToOptimize, prior, layout, camIdx, scanPos>>
  /\ emitted' = <<>>
  /\ UNCHANGED histVars
  /\ UNCHANGED odomVars

\* main(), lines 170-180: ParseConfig(configPath), then LocalizerRunner's
\* constructor (lines 65-72) builds one CameraListener per configured camera.
\* argc and configPath are not read again.
Construct ==
  /\ pc = "load"
  /\ UNCHANGED ready
  /\ \E n \in 0..MaxCams : numCams' = n
  /\ emitted' = <<Call("ParseConfig", 0, 0, 0, 0)>>
  /\ configPath' = ""
  /\ argc' = 0
  /\ pc' = "loop"
  /\ UNCHANGED <<exitStatus, gotInitialGuess, lastOdomTimestamp,
                 tooNewCameraObservations, readyToOptimize, prior, layout, camIdx,
                 scanPos>>
  /\ UNCHANGED histVars
  /\ UNCHANGED odomVars

\* Mutant of UpdateConfig: the layout is processed before the prior.
UpdateConfigLayoutFirst ==
  /\ pc = "loop"
  /\ UNCHANGED ready
  /\ \E p \in BOOLEAN, l \in BOOLEAN :
       LET guess1  == AfterLayout(l, gotInitialGuess)
           doReset == ApplyPrior(p, guess1)
           guess2  == IF doReset THEN TRUE ELSE guess1
       IN  /\ prior' = p
           /\ layout' = l
           /\ gotInitialGuess' = guess2
           /\ readyToOptimize' = AndAssign(TRUE, guess2)
           /\ emitted' = (IF l THEN <<Call("SetLayout", 0, 0, 0, lastOdomTimestamp)>> ELSE <<>>)
                       \o (IF doReset THEN <<Call("Reset", 0, 0, 0, lastOdomTimestamp)>> ELSE <<>>)
           /\ resetSinceLayout' = (doReset \/ (~l /\ resetSinceLayout))
  /\ pc' = "odom"
  /\ UNCHANGED <<lastOdomTimestamp, tooNewCameraObservations, camIdx, scanPos>>
  /\ UNCHANGED <<created, delivered, backlogged, direct, odomMax, camNotReady>>
  /\ UNCHANGED mainVars
  /\ UNCHANGED odomVars

\* Update(), lines 78-95: configuration changes and the initial-guess flag.
UpdateConfig ==
  /\ pc = "loop"
  /\ UNCHANGED ready
  /\ \E p \in BOOLEAN, l \in BOOLEAN :
       LET doReset == ApplyPrior(p, gotInitialGuess)
           guess1  == IF doReset THEN TRUE ELSE gotInitialGuess
           guess2  == AfterLayout(l, guess1)
       IN  /\ prior' = p
           /\ layout' = l
           /\ gotInitialGuess' = guess2
           /\ readyToOptimize' = AndAssign(TRUE, guess2)
           /\ emitted' = (IF doReset THEN <<Call("Reset", 0, 0, 0, lastOdomTimestamp)>> ELSE <<>>)
                       \o (IF l THEN <<Call("SetLayout", 0, 0, 0, lastOdomTimestamp)>> ELSE <<>>)
           /\ resetSinceLayout' = IF l THEN FALSE ELSE (doReset \/ resetSinceLayout)
  /\ pc' = "odom"
  /\ UNCHANGED <<lastOdomTimestamp, tooNewCameraObservations, camIdx, scanPos>>
  /\ UNCHANGED <<created, delivered, backlogged, direct, odomMax, camNotReady>>
  /\ UNCHANGED mainVars
  /\ UNCHANGED odomVars

\* Update(), lines 97-98: odomListener.Update() returns odomUpdate, of some size.
\* Its elements are the environment's and are chosen as the loop reaches them.
\* prior and layout are not read from here on and are dropped.
OdomPull ==
  /\ pc = "odom"
  /\ UNCHANGED ready
  /\ \E size \in 0..MaxOdomLen : odomLeft' = size /\ odomUnforwarded' = size
  /\ odomRaised' = FALSE
  /\ emitted' = <<Call("OdomUpdate", 0, 0, 0, lastOdomTimestamp)>>
  /\ pc' = "odomloop"
  /\ prior' = FALSE
  /\ layout' = FALSE
  /\ UNCHANGED <<gotInitialGuess, lastOdomTimestamp, tooNewCameraObservations,
                 readyToOptimize, camIdx, scanPos>>
  /\ UNCHANGED histVars
  /\ UNCHANGED mainVars

\* Update(), lines 99-103: one iteration of the loop over odomUpdate.
OdomSample ==
  /\ pc = "odomloop"
  /\ UNCHANGED ready
  /\ odomLeft > 0
  /\ \E t \in Times :
       /\ lastOdomTimestamp' = AdvanceWatermark(lastOdomTimestamp, t)
       /\ emitted' = OdomCalls(t, lastOdomTimestamp')
       /\ odomUnforwarded' = odomUnforwarded - Len(emitted')
       /\ odomMax' = SetMax({odomMax, t})
       /\ odomRaised' = (odomRaised \/ lastOdomTimestamp < t)
  /\ odomLeft' = odomLeft - 1
  /\ UNCHANGED <<pc, gotInitialGuess, tooNewCameraObservations, readyToOptimize, prior,
                 layout, camIdx, scanPos>>
  /\ UNCHANGED <<obsVars, resetSinceLayout, camNotReady>>
  /\ UNCHANGED mainVars

\* Update(), lines 99 and 108: the loop over odomUpdate ends; first camera, or
\* line 138 when there is none.
OdomEnd ==
  /\ pc = "odomloop"
  /\ UNCHANGED ready
  /\ odomLeft = 0
  /\ IF numCams = 0
     THEN pc' = "decide" /\ camIdx' = 0
     ELSE pc' = "cam" /\ camIdx' = 1
  /\ emitted' = <<>>
  /\ UNCHANGED <<odomVars, gotInitialGuess, lastOdomTimestamp, tooNewCameraObservations,
                 readyToOptimize, prior, layout, scanPos>>
  /\ UNCHANGED histVars
  /\ UNCHANGED mainVars

\* lines 115-117: cam_update, its i-th element being a new observation
NewObservations(ts) == [i \in 1..Len(ts) |-> [id |-> Len(created) + i, timeUs |-> ts[i]]]

\* lines 119-123: the elements of cam_update pushed to the backlog, in order
Buffered(obs, wm) == SelectSeq(obs, LAMBDA o : TooNew(o.timeUs, wm))

\* Mutant of Admitted: nothing is admitted while there is no initial guess.
AdmittedIfGuess(obs, wm) ==
  IF gotInitialGuess THEN SelectSeq(obs, LAMBDA o : ~TooNew(o.timeUs, wm)) ELSE <<>>

\* lines 119-124: the elements of cam_update passed to AddTagObservation, in order
Admitted(obs, wm) == SelectSeq(obs, LAMBDA o : ~TooNew(o.timeUs, wm))

\* line 124: the AddTagObservation calls for obs, in order
TagCalls(obs, cam, wm) ==
  [i \in 1..Len(obs) |-> Call("AddTagObservation", cam, obs[i].id, obs[i].timeUs, wm)]

\* Mutant of CameraNotReady: the camera is pulled although it is not ready.
CameraNotReadyPulled ==
  /\ pc = "cam"
  /\ UNCHANGED scanPos
  /\ ready' = FALSE
  /\ readyToOptimize' = AndAssign(readyToOptimize, ready')
  /\ emitted' = <<Call("ReadyToOptimize", camIdx, 0, 0, lastOdomTimestamp),
                  Call("CameraUpdate", camIdx, 0, 0, lastOdomTimestamp)>>
  /\ pc' = "scan"
  /\ UNCHANGED <<gotInitialGuess, lastOdomTimestamp, tooNewCameraObservations, prior,
                 layout, camIdx>>
  /\ camNotReady' = TRUE
  /\ UNCHANGED <<obsVars, odomMax, resetSinceLayout>>
  /\ UNCHANGED mainVars
  /\ UNCHANGED odomVars

\* Update(), lines 109-113 with ReadyToOptimize() false: nothing is pulled.
CameraNotReady ==
  /\ pc = "cam"
  /\ ready' = FALSE
  /\ readyToOptimize' = AndAssign(readyToOptimize, ready')
  /\ emitted' = <<Call("ReadyToOptimize", camIdx, 0, 0, lastOdomTimestamp)>>
  /\ pc' = "scan"
  /\ scanPos' = 1
  /\ UNCHANGED <<gotInitialGuess, lastOdomTimestamp, tooNewCameraObservations, prior,
                 layout, camIdx>>
  /\ camNotReady' = TRUE
  /\ UNCHANGED <<obsVars, odomMax, resetSinceLayout>>
  /\ UNCHANGED mainVars
  /\ UNCHANGED odomVars

\* Update(), lines 109-126 with ReadyToOptimize() true: the camera pull, each
\* observation admitted (line 124) or pushed to the backlog (line 121).
CameraPull ==
  /\ pc = "cam"
  /\ \E ts \in SeqsUpTo(Times, MaxObs - Len(created)) :
       LET obs == NewObservations(ts)
           adm == Admitted(obs, lastOdomTimestamp)
           buf == Buffered(obs, lastOdomTimestamp)
       IN  /\ created' = created \o ts
           /\ tooNewCameraObservations' = tooNewCameraObservations \o buf
           /\ backlogged' = backlogged \cup {buf[i].id : i \in 1..Len(buf)}
           /\ direct' = direct \cup {adm[i].id : i \in 1..Len(adm)}
           /\ delivered' = [i \in ObsIds |->
                              IF \E k \in 1..Len(adm) : adm[k].id = i
                              THEN delivered[i] + 1 ELSE delivered[i]]
           /\ emitted' = <<Call("ReadyToOptimize", camIdx, 0, 0, lastOdomTimestamp),
                            Call("CameraUpdate", camIdx, 0, 0, lastOdomTimestamp)>>
                       \o TagCalls(adm, camIdx, lastOdomTimestamp)
  /\ pc' = "scan"
  /\ scanPos' = 1
  /\ ready' = TRUE
  /\ readyToOptimize' = AndAssign(readyToOptimize, ready')
  /\ UNCHANGED <<gotInitialGuess, lastOdomTimestamp, prior, layout,
                 camIdx, odomMax, resetSinceLayout, camNotReady>>
  /\ UNCHANGED mainVars
  /\ UNCHANGED odomVars

\* The element the iterator of line 129 is at.
ScanIt == tooNewCameraObservations[scanPos]

\* Update(), lines 129-130: the element is not eligible, the iterator moves on.
ScanSkip ==
  /\ pc = "scan"
  /\ UNCHANGED ready
  /\ scanPos <= Len(tooNewCameraObservations)
  /\ ~Eligible(ScanIt.timeUs, lastOdomTimestamp)
  /\ scanPos' = scanPos + 1
  /\ UNCHANGED <<pc, gotInitialGuess, lastOdomTimestamp, tooNewCameraObservations,
                 readyToOptimize, prior, layout, camIdx>>
  /\ emitted' = <<>>
  /\ UNCHANGED histVars
  /\ UNCHANGED mainVars
  /\ UNCHANGED odomVars

\* Update(), lines 130-134, the iterator past the front: pop_front() erases the
\* FRONT element, not the one the iterator is at; `it` stays valid and is passed to
\* AddTagObservation.  The iterator's element moves one place down, so ++ leaves
\* scanPos as it is.
ScanPopOther ==
  /\ pc = "scan"
  /\ UNCHANGED ready
  /\ 1 < scanPos /\ scanPos <= Len(tooNewCameraObservations)
  /\ Eligible(ScanIt.timeUs, lastOdomTimestamp)
  /\ tooNewCameraObservations' = PopFront(tooNewCameraObservations)
  /\ emitted' = <<Call("AddTagObservation", camIdx, ScanIt.id, ScanIt.timeUs,
                              lastOdomTimestamp)>>
  /\ delivered' = [delivered EXCEPT ![ScanIt.id] = @ + 1]
  /\ UNCHANGED <<pc, scanPos, gotInitialGuess, lastOdomTimestamp, readyToOptimize,
                 prior, layout, camIdx>>
  /\ UNCHANGED <<created, backlogged, direct, odomMax, resetSinceLayout, camNotReady>>
  /\ UNCHANGED mainVars
  /\ UNCHANGED odomVars

\* Update(), lines 130-134, the iterator at the front: pop_front() destroys the
\* element `it` refers to, and line 133 passes the dangling reference to
\* AddTagObservation (undefined behaviour).  The callee reads whatever the freed
\* storage holds: the old timeUs or any other value.  The invalidated iterator then
\* steps to the new front.
ScanPopSelf ==
  /\ pc = "scan"
  /\ UNCHANGED ready
  /\ scanPos = 1 /\ scanPos <= Len(tooNewCameraObservations)
  /\ Eligible(ScanIt.timeUs, lastOdomTimestamp)
  /\ tooNewCameraObservations' = PopFront(tooNewCameraObservations)
  /\ \E read \in Times :
       emitted' = <<Call("AddTagObservation", camIdx, ScanIt.id, read,
                                lastOdomTimestamp)>>
  /\ delivered' = [delivered EXCEPT ![ScanIt.id] = @ + 1]
  /\ UNCHANGED <<pc, scanPos, gotInitialGuess, lastOdomTimestamp, readyToOptimize,
                 prior, layout, camIdx>>
  /\ UNCHANGED <<created, backlogged, direct, odomMax, resetSinceLayout, camNotReady>>
  /\ UNCHANGED mainVars
  /\ UNCHANGED odomVars

\* The same undefined behaviour in a build that traps it (checked iterators, a
\* sanitizer, a fault on the freed storage): the process dies at line 133.
ScanAbort ==
  /\ pc = "scan"
  /\ UNCHANGED ready
  /\ scanPos = 1 /\ scanPos <= Len(tooNewCameraObservations)
  /\ Eligible(ScanIt.timeUs, lastOdomTimestamp)
  /\ tooNewCameraObservations' = PopFront(tooNewCameraObservations)
  /\ pc' = "aborted"
  /\ UNCHANGED <<scanPos, gotInitialGuess, lastOdomTimestamp, readyToOptimize,
                 prior, layout, camIdx>>
  /\ emitted' = <<>>
  /\ UNCHANGED histVars
  /\ UNCHANGED mainVars
  /\ UNCHANGED odomVars

\* Update(), lines 129 and 108: the scan reaches end(); next camera, or line 138.
ScanEnd ==
  /\ pc = "scan"
  /\ scanPos > Len(tooNewCameraObservations)
  /\ IF camIdx < numCams
     THEN pc' = "cam" /\ camIdx' = camIdx + 1
     ELSE pc' = "decide" /\ camIdx' = 0
  /\ scanPos' = 0
  /\ ready' = FALSE
  /\ UNCHANGED <<gotInitialGuess, lastOdomTimestamp, tooNewCameraObservations,
                 readyToOptimize, prior, layout>>
  /\ emitted' = <<>>
  /\ UNCHANGED histVars
  /\ UNCHANGED mainVars
  /\ UNCHANGED odomVars

\* Mutant of NotReady: the tick optimizes and publishes although it is not ready.
NotReadyOptimizes ==
  /\ pc = "decide"
  /\ UNCHANGED ready
  /\ ~readyToOptimize
  /\ emitted' = <<Call("Optimize", 0, 0, 0, lastOdomTimestamp),
                  Call("PublisherUpdate", 0, 0, 0, lastOdomTimestamp),
                  Call("Flush", 0, 0, 0, lastOdomTimestamp)>>
  /\ pc' = "done"
  /\ UNCHANGED <<gotInitialGuess, lastOdomTimestamp, tooNewCameraObservations,
                 readyToOptimize, prior, layout, camIdx, scanPos>>
  /\ UNCHANGED histVars
  /\ UNCHANGED mainVars
  /\ UNCHANGED odomVars

\* Update(), lines 138-142: not ready, sleep 1000 ms and return.
NotReady ==
  /\ pc = "decide"
  /\ UNCHANGED ready
  /\ ~readyToOptimize
  /\ emitted' = <<Call("Sleep", 0, 0, 0, lastOdomTimestamp)>>
  /\ pc' = "done"
  /\ UNCHANGED <<gotInitialGuess, lastOdomTimestamp, tooNewCameraObservations,
                 readyToOptimize, prior, layout, camIdx, scanPos>>
  /\ UNCHANGED histVars
  /\ UNCHANGED mainVars
  /\ UNCHANGED odomVars

\* Mutant of OptimizeOk: the publisher runs before Optimize().
OptimizeOkPublishFirst ==
  /\ pc = "decide"
  /\ UNCHANGED ready
  /\ readyToOptimize
  /\ emitted' = <<Call("PublisherUpdate", 0, 0, 0, lastOdomTimestamp),
                  Call("Optimize", 0, 0, 0, lastOdomTimestamp),
                  Call("Flush", 0, 0, 0, lastOdomTimestamp)>>
  /\ pc' = "done"
  /\ UNCHANGED <<gotInitialGuess, lastOdomTimestamp, tooNewCameraObservations,
                 readyToOptimize, prior, layout, camIdx, scanPos>>
  /\ UNCHANGED histVars
  /\ UNCHANGED mainVars
  /\ UNCHANGED odomVars

\* Update(), lines 147-150: Optimize() returns; publish and flush.
OptimizeOk ==
  /\ pc = "decide"
  /\ UNCHANGED ready
  /\ readyToOptimize
  /\ emitted' = <<Call("Optimize", 0, 0, 0, lastOdomTimestamp),
                         Call("PublisherUpdate", 0, 0, 0, lastOdomTimestamp),
                         Call("Flush", 0, 0, 0, lastOdomTimestamp)>>
  /\ pc' = "done"
  /\ UNCHANGED <<gotInitialGuess, lastOdomTimestamp, tooNewCameraObservations,
                 readyToOptimize, prior, layout, camIdx, scanPos>>
  /\ UNCHANGED histVars
  /\ UNCHANGED mainVars
  /\ UNCHANGED odomVars

\* Mutant of OptimizeFail: the handler prints and swallows the exception.
OptimizeFailSwallowed ==
  /\ pc = "decide"
  /\ UNCHANGED ready
  /\ readyToOptimize
  /\ emitted' = <<Call("Optimize", 0, 0, 0, lastOdomTimestamp),
                  Call("Print", 0, 0, 0, lastOdomTimestamp)>>
  /\ pc' = "done"
  /\ UNCHANGED <<gotInitialGuess, lastOdomTimestamp, tooNewCameraObservations,
                 readyToOptimize, prior, layout, camIdx, scanPos>>
  /\ UNCHANGED histVars
  /\ UNCHANGED mainVars
  /\ UNCHANGED odomVars

\* Update(), lines 148 and 151-154: Optimize() throws; the handler prints the
\* estimator and rethrows.  main() (lines 182-186) has no handler: the exception
\* leaves the loop and the process terminates.
OptimizeFail ==
  /\ pc = "decide"
  /\ UNCHANGED ready
  /\ readyToOptimize
  /\ emitted' = <<Call("Optimize", 0, 0, 0, lastOdomTimestamp),
                         Call("Print", 0, 0, 0, lastOdomTimestamp)>>
  /\ pc' = "terminated"
  /\ UNCHANGED <<gotInitialGuess, lastOdomTimestamp, tooNewCameraObservations,
                 readyToOptimize, prior, layout, camIdx, scanPos>>
  /\ UNCHANGED histVars
  /\ UNCHANGED mainVars
  /\ UNCHANGED odomVars

\* main(), lines 182-186: Update() has returned; sleep 10 ms and loop.  The locals
\* of Update() are gone.
Return ==
  /\ pc = "done"
  /\ UNCHANGED ready
  /\ pc' = "loop"
  /\ readyToOptimize' = TRUE
  /\ emitted' = <<>>
  /\ UNCHANGED <<gotInitialGuess, lastOdomTimestamp, tooNewCameraObservations,
                 prior, layout, camIdx, scanPos>>
  /\ camNotReady' = FALSE
  /\ odomRaised' = FALSE
  /\ UNCHANGED <<obsVars, odomMax, resetSinceLayout, odomLeft, odomUnforwarded>>
  /\ UNCHANGED mainVars

Next ==
  \/ Main
  \/ Construct
  \/ UpdateConfig
  \/ OdomPull
  \/ OdomSample
  \/ OdomEnd
  \/ CameraNotReady
  \/ CameraPull
  \/ ScanSkip
  \/ ScanPopOther
  \/ ScanPopSelf
  \/ ScanAbort
  \/ ScanEnd
  \/ NotReady
  \/ OptimizeOk
  \/ OptimizeFail
  \/ Return

Spec == Init /\ [][Next]_vars
\* ================================================================ claims
\* The positions in emitted of the calls of operation op.
CallsOf(op) == {i \in 1..Len(emitted) : emitted[i].op = op}

\* The operations called by the last step, in order.
EmittedOps == [i \in 1..Len(emitted) |-> emitted[i].op]

\* The ids of the entries of backlog q.
IdsIn(q) == {q[i].id : i \in 1..Len(q)}

C2_BackloggedDeliveredAtMostOnce ==
  \A id \in backlogged : delivered[id] <= 1

\* ---------------------------------------------------------------- C3
\* C3: when a tick has ended, every observation ever placed in the backlog whose
\* timestamp is <= the watermark has been delivered, and none has left the backlog
\* without having been delivered.
C3_BackloggedDeliveredWhenDue ==
  pc = "done" =>
    \A id \in backlogged :
      /\ created[id] <= lastOdomTimestamp => delivered[id] >= 1
      /\ delivered[id] = 0 => id \in IdsIn(tooNewCameraObservations)

\* ---------------------------------------------------------------- C4
\* C4: a step removes an entry from the backlog only if that entry's own timestamp
\* is <= the current watermark.
C4_RemovedOnlyWhenEligible ==
  [][\A i \in 1..Len(tooNewCameraObservations) :
        tooNewCameraObservations[i].id \notin IdsIn(tooNewCameraObservations')
          => tooNewCameraObservations[i].timeUs <= lastOdomTimestamp]_vars

\* ---------------------------------------------------------------- C5
\* C5: lastOdomTimestamp never decreases, and in every state it equals the largest
\* of 0 and the timestamps of all odometry samples processed so far, also when the
\* samples of one pull are not in increasing order.
C5_WatermarkIsRunningMax ==
  /\ [](lastOdomTimestamp = odomMax)
  /\ [][lastOdomTimestamp' >= lastOdomTimestamp]_vars

\* C5 witness: a sample below the watermark, in a pull that has already raised it.
C5_Witness ==
  /\ pc = "odomloop"
  /\ odomRaised
  /\ emitted # <<>>
  /\ emitted[1].op = "AddOdometry"
  /\ emitted[1].timeUs < lastOdomTimestamp

\* ---------------------------------------------------------------- C6
\* C6: Optimize and the publisher's Update are called only in a tick where
\* gotInitialGuess is true after the configuration step and no camera reported
\* not ready, and never before a Reset from a PosePrior.
C6_OptimizeOnlyWhenReady ==
  (CallsOf("Optimize") # {} \/ CallsOf("PublisherUpdate") # {})
    => /\ gotInitialGuess
       /\ ~camNotReady
       /\ resetSinceLayout

\* C6 witness: Optimize called in a tick with every camera ready.
C6_Witness ==
  /\ CallsOf("Optimize") # {}
  /\ numCams = MaxCams

\* ---------------------------------------------------------------- C7
\* C7: gotInitialGuess starts false and is true only if Reset was called since
\* the last layout installation; a tick that installs a layout ends its
\* configuration step with gotInitialGuess false; gotInitialGuess turns true only
\* in a step in which NewPosePrior() returns a prior; and while it is false the
\* tick is not ready to optimize.
C7_GuessNeedsPriorSinceLayout ==
  /\ [](/\ pc = "main" => ~gotInitialGuess
        /\ gotInitialGuess => resetSinceLayout
        /\ (pc = "decide" /\ ~gotInitialGuess) => ~readyToOptimize)
  /\ [][/\ (pc = "loop" /\ layout') => ~gotInitialGuess'
        /\ (~gotInitialGuess /\ gotInitialGuess') => (pc = "loop" /\ prior')]_vars

\* C7 witness: a layout installed while gotInitialGuess was true (the prior
\* returned in the same step was not applied, so the flag was set) clears it.
C7_Witness ==
  /\ pc = "odom"
  /\ layout
  /\ prior
  /\ EmittedOps = <<"SetLayout">>
  /\ ~gotInitialGuess

\* ---------------------------------------------------------------- C8
\* C8: when Optimize throws, the step calls Optimize and then Print and nothing
\* else, the publisher's Update and the flush are called only after an Optimize
\* that returned, and the process takes no further step (no other tick runs).
C8_FailedOptimizeNeverPublishes ==
  /\ [](/\ pc = "terminated" => EmittedOps = <<"Optimize", "Print">>
        /\ CallsOf("Print") # {} => pc = "terminated"
        /\ (CallsOf("PublisherUpdate") # {} \/ CallsOf("Flush") # {})
             => (pc = "done" /\ EmittedOps = <<"Optimize", "PublisherUpdate", "Flush">>))
  /\ [][pc # "terminated"]_vars

\* C8 witness: Optimize has thrown.
C8_Witness ==
  /\ pc = "terminated"
  /\ CallsOf("Optimize") # {}

\* ---------------------------------------------------------------- C9
\* C9 as stated: every prior NewPosePrior() returns is applied by exactly one
\* Reset in that tick, whatever gotInitialGuess was, and sets gotInitialGuess.
C9_EveryPriorApplied ==
  (pc = "odom" /\ prior) =>
    /\ Cardinality(CallsOf("Reset")) = 1
    /\ (layout \/ gotInitialGuess)

\* C9 amended: a prior returned while gotInitialGuess is false is applied by
\* exactly one Reset in that tick and sets gotInitialGuess (which a layout returned
\* in the same tick clears again); a prior returned while gotInitialGuess is true
\* is consumed without any Reset.
C9_PriorAppliedWhenNoGuess ==
  [][/\ (pc = "loop" /\ prior' /\ ~gotInitialGuess)
          => /\ Cardinality({i \in 1..Len(emitted') : emitted'[i].op = "Reset"}) = 1
             /\ (layout' \/ gotInitialGuess')
     /\ (pc = "loop" /\ prior' /\ gotInitialGuess)
          => {i \in 1..Len(emitted') : emitted'[i].op = "Reset"} = {}]_vars

\* C9 witness: a prior has been returned and applied by Reset.
C9_Witness ==
  /\ pc = "odom"
  /\ prior
  /\ CallsOf("Reset") # {}
  /\ gotInitialGuess

\* ---------------------------------------------------------------- C10
\* C10: in a camera pull, an observation with timestamp t <= lastOdomTimestamp
\* (equality included) is passed to AddTagObservation in that step with its own
\* timestamp and is not placed in the backlog; one with t > lastOdomTimestamp is
\* appended to the backlog and is not delivered in that step.  No observation is
\* both admitted directly and placed in the backlog.
C10_AdmitOrBuffer ==
  /\ [](direct \cap backlogged = {})
  /\ [][pc = "cam" =>
          /\ \A id \in (Len(created) + 1)..Len(created') :
               IF created'[id] <= lastOdomTimestamp
               THEN /\ delivered'[id] = 1
                    /\ id \in direct'
                    /\ id \notin backlogged'
                    /\ id \notin IdsIn(tooNewCameraObservations')
                    /\ \E i \in 1..Len(emitted') :
                         /\ emitted'[i].op = "AddTagObservation"
                         /\ emitted'[i].id = id
                         /\ emitted'[i].timeUs = created'[id]
               ELSE /\ delivered'[id] = 0
                    /\ id \in backlogged'
                    /\ id \notin direct'
                    /\ id \in IdsIn(tooNewCameraObservations')
                    /\ \A i \in 1..Len(emitted') : emitted'[i].id # id
          /\ Len(tooNewCameraObservations') >= Len(tooNewCameraObservations)
          /\ SubSeq(tooNewCameraObservations', 1, Len(tooNewCameraObservations))
               = tooNewCameraObservations]_vars

\* C10 witness: an observation whose timestamp equals the watermark that this
\* tick's odometry pull has raised is admitted directly.
C10_Witness ==
  /\ pc = "scan"
  /\ odomRaised
  /\ \E i \in CallsOf("AddTagObservation") :
       /\ emitted[i].timeUs = lastOdomTimestamp
       /\ emitted[i].id \in direct
       /\ emitted[i].id \notin backlogged

\* ---------------------------------------------------------------- C11
\* C11: every iteration of the odometry loop passes its sample to AddOdometry,
\* exactly once and in that iteration, whatever gotInitialGuess, the layout, the
\* cameras and the sample's timestamp are: the samples of a pull not yet forwarded
\* are exactly those the loop has not reached, AddOdometry is called nowhere else,
\* and no sample is left when the loop is over.
C11_OdometryForwardedOnce ==
  /\ [](/\ odomUnforwarded = odomLeft
        /\ pc # "odomloop" => odomUnforwarded = 0
        /\ CallsOf("AddOdometry") # {} => pc = "odomloop")
  /\ [][(pc = "odomloop" /\ odomLeft > 0)
          => /\ Len(emitted') = 1
             /\ emitted'[1].op = "AddOdometry"
             /\ odomLeft' = odomLeft - 1]_vars

\* C11 witness: the last sample of a pull, older than the watermark, has been
\* forwarded in a tick without an initial guess.
C11_Witness ==
  /\ pc = "odomloop"
  /\ odomLeft = 0
  /\ ~gotInitialGuess
  /\ CallsOf("AddOdometry") # {}
  /\ emitted[1].timeUs < lastOdomTimestamp

\* ---------------------------------------------------------------- C12
\* C12: a camera step calls the camera's Update() exactly once if its
\* ReadyToOptimize() returned true and not at all otherwise, and for a camera that
\* is not ready no observation is created, delivered or buffered.
C12_CameraPulledOnlyWhenReady ==
  /\ [](CallsOf("CameraUpdate") # {} => (pc = "scan" /\ ready))
  /\ [][pc = "cam" =>
          LET updates == {i \in 1..Len(emitted') : emitted'[i].op = "CameraUpdate"}
              readies == {i \in 1..Len(emitted') : emitted'[i].op = "ReadyToOptimize"}
          IN  /\ Cardinality(readies) = 1
              /\ Cardinality(updates) = (IF ready' THEN 1 ELSE 0)
              /\ \A i \in updates \cup readies : emitted'[i].cam = camIdx
              /\ ~ready' =>
                   /\ created' = created
                   /\ delivered' = delivered
                   /\ tooNewCameraObservations' = tooNewCameraObservations
                   /\ \A i \in 1..Len(emitted') : emitted'[i].op # "AddTagObservation"]_vars

\* C12 witness: a camera has reported not ready and nothing was pulled from it.
C12_Witness ==
  /\ pc = "scan"
  /\ ~ready
  /\ EmittedOps = <<"ReadyToOptimize">>

\* ---------------------------------------------------------------- C13
\* C13: with argc other than 1 or 2 main() returns a non-zero status, without
\* loading a configuration, building a runner or running a tick, and takes no
\* further step; with argc = 1 the default path is loaded, with argc = 2 argv[1].
C13_UsageError ==
  /\ [](/\ pc = "exit" => (argc \notin {1, 2} /\ exitStatus # 0 /\ emitted = <<>>)
        /\ pc = "load" => (/\ argc \in {1, 2}
                           /\ exitStatus = 0
                           /\ configPath = (IF argc = 1 THEN "default" ELSE "argv1"))
        /\ pc \notin {"main", "exit", "load"} => exitStatus = 0)
  /\ [][pc # "exit"]_vars
  /\ [][pc = "main" => pc' = (IF argc \in {1, 2} THEN "load" ELSE "exit")]_vars

\* C13 witness: main() has returned on a usage error.
C13_Witness ==
  /\ pc = "exit"
  /\ argc > 2

\* ---------------------------------------------------------------- C14
\* C14: when a tick with at least one camera has ended, no backlog entry has a
\* timestamp <= the watermark.
C14_NoEligibleEntryLeft ==
  (pc = "done" /\ numCams >= 1) =>
    \A i \in 1..Len(tooNewCameraObservations) :
      tooNewCameraObservations[i].timeUs > lastOdomTimestamp

\* ---------------------------------------------------------------- C15
\* The place of a step of Update() in the order of its statements.
Phase(p) ==
  CASE p = "loop" -> 0
    [] p = "odom" -> 1
    [] p = "odomloop" -> 2
    [] p \in {"cam", "scan"} -> 3
    [] p = "decide" -> 4
    [] OTHER -> 5

\* C15: within a tick control only moves forward through odometry, cameras and
\* backlog, decision; AddOdometry is called only in the odometry loop,
\* AddTagObservation only in the camera loop, Optimize only at the decision, and a
\* ready tick that returns has called exactly Optimize, then the publisher's
\* Update, then the flush, with no estimator input after Optimize.
C15_CallOrderInReadyTick ==
  /\ [](/\ CallsOf("AddOdometry") # {} => pc = "odomloop"
        /\ CallsOf("AddTagObservation") # {} => pc = "scan"
        /\ CallsOf("Optimize") # {} => (pc \in {"done", "terminated"} /\ readyToOptimize)
        /\ CallsOf("PublisherUpdate") \cup CallsOf("Flush") # {} => pc = "done"
        /\ (pc = "done" /\ readyToOptimize)
             => EmittedOps = <<"Optimize", "PublisherUpdate", "Flush">>)
  /\ [][(pc \in {"loop", "odom", "odomloop", "cam", "scan", "decide"})
          => Phase(pc') >= Phase(pc)]_vars
  /\ [][(pc = "decide" /\ readyToOptimize)
          => /\ emitted'[1].op = "Optimize"
             /\ \A i \in 2..Len(emitted') :
                  emitted'[i].op \notin {"Optimize", "AddOdometry", "AddTagObservation"}]_vars

\* C15 witness: a ready tick that raised the watermark by an odometry sample and
\* delivered an observation of that very timestamp has optimized and published.
C15_Witness ==
  /\ pc = "done"
  /\ readyToOptimize
  /\ odomRaised
  /\ \E id \in 1..Len(created) : created[id] = lastOdomTimestamp /\ delivered[id] >= 1
  /\ EmittedOps = <<"Optimize", "PublisherUpdate", "Flush">>

\* ---------------------------------------------------------------- C16
\* C16: a tick that returns not ready has forwarded all its odometry, has the
\* watermark at the largest sample seen, has passed to AddTagObservation every
\* backlog entry it found eligible, and has called nothing but the sleep at its
\* end; the return leaves lastOdomTimestamp, the backlog and gotInitialGuess as
\* the tick left them.
C16_NotReadyTickStillIngests ==
  /\ []((pc = "done" /\ ~readyToOptimize)
          => /\ EmittedOps = <<"Sleep">>
             /\ odomUnforwarded = 0
             /\ lastOdomTimestamp = odomMax
             /\ \A i \in 1..Len(tooNewCameraObservations) :
                  Eligible(tooNewCameraObservations[i].timeUs, lastOdomTimestamp)
                    => delivered[tooNewCameraObservations[i].id] >= 1)
  /\ [][(pc = "odomloop" /\ odomLeft > 0 /\ ~readyToOptimize)
          => /\ emitted'[1].op = "AddOdometry"
             /\ lastOdomTimestamp' >= emitted'[1].timeUs
             /\ lastOdomTimestamp' >= lastOdomTimestamp]_vars
  /\ [][pc = "done"
          => UNCHANGED <<lastOdomTimestamp, tooNewCameraObservations, gotInitialGuess>>]_vars

\* C16 witness: a tick with a camera that was not ready raised the watermark,
\* replayed a backlogged observation of the new watermark's timestamp, and
\* returned through the sleep.
C16_Witness ==
  /\ pc = "done"
  /\ ~readyToOptimize
  /\ camNotReady
  /\ odomRaised
  /\ \E id \in backlogged : created[id] = lastOdomTimestamp /\ delivered[id] >= 1
  /\ EmittedOps = <<"Sleep">>

\* ---------------------------------------------------------------- C17
\* C17: a tick in which both a prior and a layout are returned calls Reset (if at
\* all) before SetLayout, leaves gotInitialGuess and readyToOptimize false, keeps
\* readyToOptimize false until it returns and so never calls Optimize; and
\* gotInitialGuess turns true only in a step in which NewPosePrior() returns a
\* value and Reset is called with it.
C17_PriorThenLayout ==
  /\ []((pc = "odom" /\ prior /\ layout)
          => /\ ~gotInitialGuess
             /\ ~readyToOptimize
             /\ ~resetSinceLayout
             /\ EmittedOps \in {<<"Reset", "SetLayout">>, <<"SetLayout">>})
  /\ []((CallsOf("Optimize") # {}) => (readyToOptimize /\ gotInitialGuess))
  /\ [][(~readyToOptimize /\ pc # "done") => ~readyToOptimize']_vars
  /\ [][(~gotInitialGuess /\ gotInitialGuess')
          => /\ pc = "loop"
             /\ prior'
             /\ emitted'[1].op = "Reset"]_vars

\* C17 witness: the prior has been applied and the layout installed after it.
C17_Witness ==
  /\ pc = "odom"
  /\ prior
  /\ layout
  /\ EmittedOps = <<"Reset", "SetLayout">>

\* ---------------------------------------------------------------- C18
\* C18: a step calls Reset only if it is the configuration step of a tick that
\* began with gotInitialGuess false and no Reset since the last layout, and in
\* which a prior is returned, and then calls it once; a prior returned while
\* gotInitialGuess is true leads to no Reset.
C18_ResetOnlyWithoutGuess ==
  /\ []((CallsOf("Reset") # {}) => (pc = "odom" /\ prior /\ Cardinality(CallsOf("Reset")) = 1))
  /\ [][pc = "loop"
          => LET resets == {i \in 1..Len(emitted') : emitted'[i].op = "Reset"}
             IN  /\ resets # {} <=> (prior' /\ ~gotInitialGuess)
                 /\ resets # {} => ~resetSinceLayout
                 /\ (prior' /\ gotInitialGuess)
                      => \A i \in 1..Len(emitted') : emitted'[i].op = "SetLayout"]_vars

\* C18 witness: a prior has been returned while gotInitialGuess was true, and no
\* estimator call was made.
C18_Witness ==
  /\ pc = "odom"
  /\ prior
  /\ ~layout
  /\ gotInitialGuess
  /\ resetSinceLayout
  /\ emitted = <<>>

\* ---------------------------------------------------------------- C19
\* C19: while gotInitialGuess is false, a camera step that pulls passes to
\* AddTagObservation exactly the pulled observations whose timestamp is <= the
\* watermark, in order, and a scan step at an eligible backlog entry that does not
\* end the process passes that entry to AddTagObservation.
C19_AdmissionIgnoresGuess ==
  /\ [][(pc = "cam" /\ ~gotInitialGuess /\ ready')
          => LET new  == [i \in 1..(Len(created') - Len(created)) |->
                            [id |-> Len(created) + i, timeUs |-> created'[Len(created) + i]]]
                 due  == SelectSeq(new, LAMBDA o : o.timeUs <= lastOdomTimestamp)
                 tags == SelectSeq(emitted', LAMBDA c : c.op = "AddTagObservation")
             IN  /\ Len(tags) = Len(due)
                 /\ \A i \in 1..Len(due) :
                      tags[i].id = due[i].id /\ tags[i].timeUs = due[i].timeUs]_vars
  /\ [][(/\ pc = "scan" /\ pc' = "scan"
         /\ ~gotInitialGuess
         /\ scanPos <= Len(tooNewCameraObservations)
         /\ ScanIt.timeUs <= lastOdomTimestamp)
          => /\ Len(emitted') = 1
             /\ emitted'[1].op = "AddTagObservation"
             /\ emitted'[1].id = ScanIt.id]_vars

\* C19 witness: with no initial guess, a camera pull has just passed an
\* observation to AddTagObservation, after a backlogged one had been replayed.
C19_Witness ==
  /\ pc = "scan"
  /\ ~gotInitialGuess
  /\ ~resetSinceLayout
  /\ CallsOf("CameraUpdate") # {}
  /\ CallsOf("AddTagObservation") # {}
  /\ \E id \in backlogged : delivered[id] >= 1

====
